---- MODULE Spec2Model ----
(***************************************************************************)
(* The Student Directory (studentController.js), the Batch Registry        *)
(* (batchController.js createBatch) and the Eligibility Query              *)
(* (getStudentsforBatchBySubject) as a state machine over the Student and  *)
(* Batch collections.  Every request handler is cut at the instants where  *)
(* it reads or writes a collection (its awaited database calls); what a    *)
(* handler does between two such instants is part of one step.             *)
(***************************************************************************)
EXTENDS Integers, Sequences, FiniteSets, TLC

(* ------------------------------ bounds -------------------------------- *)

\* requests accepted in one behaviour
MaxRequests == 3

\* longest roster a createBatch request carries
MaxRoster == 2

\* the handlers that can be in flight at the same time, in the order in
\* which a free one is given the next request
ClientOrder == <<"c1", "c2">>

Clients == {ClientOrder[i] : i \in 1..Len(ClientOrder)}

(* --------------------------- values and ids --------------------------- *)

\* JavaScript's undefined (a field the request body does not carry)
Undefined == "undefined"

\* a string that is not a 24-hex ObjectId
Malformed == "bad"

\* _id values the Student collection hands out, in order of insertion
NewObjectIds == <<"o1", "o2", "o3", "o4", "o5", "o6", "o7", "o8">>

\* mongoose.Types.ObjectId.isValid(x)
IsValidObjectId(x) == x \notin {Undefined, Malformed, ""}

\* new mongoose.Types.ObjectId(x) throws on a string that is no ObjectId;
\* without an argument it makes a new id
ObjectIdThrows(x) == x # Undefined /\ ~IsValidObjectId(x)

NewObjectId(x) == IF x = Undefined THEN "generated" ELSE x

\* !x for the values a request body field takes
Falsy(x) == x \in {Undefined, ""}

\* the catalogue, owned by other controllers and only read here
SubjectIds == {"S1", "S2", "S3"}

\* Package.subject_id: the subjects each package contains
PackageSubjects ==
    [p \in {"P1", "P2"} |-> IF p = "P1" THEN {"S1", "S2"} ELSE {"S2"}]

\* the Class collection: className and classLevel by _id
ClassRecords ==
    [k \in {"k1"} |-> [className |-> "Grade 1", classLevel |-> "primary"]]

(* ------------------------------ inputs -------------------------------- *)

\* req.params.id of deleteStudent and of getStudentById: values of
\* student_id, a value of _id, and a string that is no ObjectId
StudentIdInputs == {"i1", "i2", "o1", Malformed}
GetStudentIdInputs == {"o1", "i1", Malformed}
SubjectInputs == SubjectIds \cup {"S9", Malformed}
RosterIds == {"o1", "o2"}

\* every sequence over S of length at most n
RECURSIVE SeqsUpTo(_, _)
SeqsUpTo(S, n) ==
    IF n = 0 THEN {<<>>}
    ELSE LET shorter == SeqsUpTo(S, n - 1)
         IN  shorter \cup {Append(q, x) : q \in {r \in shorter : Len(r) = n - 1}, x \in S}

\* a value of req.body.students: an array, a string, or nothing
Array(q) == [t |-> "array", v |-> q]
NotAnArray == [t |-> "string", v |-> <<>>]
NoStudents == [t |-> Undefined, v |-> <<>>]

FullBatchBody(subject, roster) ==
    [batch_name |-> "name", batch_image |-> "img", subject_id |-> subject,
     class_id |-> "k1", teacher_id |-> "t1", students |-> roster,
     date |-> "d1", type_of_batch |-> "group"]

\* req.body of createBatch: complete bodies with every roster of well-formed
\* ids, a roster holding a malformed id, a roster that is no array, and
\* bodies lacking one field
BatchBodies ==
    {FullBatchBody("S1", Array(q)) : q \in SeqsUpTo(RosterIds, MaxRoster)}
        \cup {FullBatchBody("S2", Array(<<id>>)) : id \in RosterIds}
        \cup {FullBatchBody("S1", Array(<<"o1", Malformed>>)),
              FullBatchBody("S1", NotAnArray),
              FullBatchBody("S1", NoStudents)}
        \cup {[FullBatchBody("S1", Array(<<"o1">>)) EXCEPT ![f] = Undefined] :
                 f \in {"batch_name", "batch_image", "subject_id", "class_id",
                        "teacher_id", "date", "type_of_batch"}}

StudentBody(auth_id, user_id, student_id, role) ==
    [auth_id |-> auth_id, user_id |-> user_id, student_id |-> student_id,
     role |-> role]

\* req.body of createStudent
StudentBodies ==
    { StudentBody("a1", "u1", "i1", "admin"),
      StudentBody("a1", "u2", "i2", "student"),
      StudentBody("a2", "u2", "i1", "student"),
      StudentBody("a2", "u2", "i2", "student"),
      StudentBody("a2", Undefined, "i2", "student"),
      StudentBody("a2", "u2", "i2", "teacher"),
      StudentBody("a2", "u2", Malformed, "student"),
      StudentBody("a2", Malformed, "i2", "student") }

NoUpdate ==
    [class_id |-> Undefined, auth_id |-> Undefined, student_id |-> Undefined,
     user_id |-> Undefined, subscribed_Package |-> Undefined,
     is_paid |-> Undefined, subscription_id |-> Undefined,
     payment_id |-> Undefined, last_online |-> Undefined,
     phone_number |-> Undefined]

\* req.body of updateStudent
UpdateBodies ==
    { NoUpdate,
      [NoUpdate EXCEPT !.is_paid = "false"],
      [NoUpdate EXCEPT !.subscribed_Package = "P1", !.is_paid = "true"],
      [NoUpdate EXCEPT !.subscribed_Package = "P2"],
      [NoUpdate EXCEPT !.subscribed_Package = ""],
      [NoUpdate EXCEPT !.auth_id = "a2"],
      [NoUpdate EXCEPT !.class_id = "k1", !.phone_number = "555"],
      [NoUpdate EXCEPT !.class_id = "k9"],
      [NoUpdate EXCEPT !.class_id = Malformed] }

\* req.params.studentId and req.body of updateStudent
UpdateRequests ==
    ({"u1"} \X UpdateBodies)
        \cup {<<"u2", [NoUpdate EXCEPT !.subscribed_Package = "P1", !.is_paid = "true"]>>,
              <<Malformed, NoUpdate>>}

BatchQuery(page, limit, studentsFilter) ==
    [page |-> page, limit |-> limit, students |-> studentsFilter,
     teacher_id |-> Undefined]

\* req.query of getAllBatches
BatchQueries ==
    { BatchQuery(Undefined, Undefined, Undefined),
      BatchQuery("1", "1", Undefined),
      BatchQuery("2", "1", Undefined),
      BatchQuery("2", "2", Undefined),
      BatchQuery("1", "2", "o1") }

(* ------------------------------- state -------------------------------- *)

VARIABLES
    students,   \* the Student collection: _id -> document
    batches,    \* the Batch collection, in insertion order
    nextId,     \* how many Student _ids have been handed out, plus one
    nreq,       \* requests accepted so far
    pc,         \* per client: where its handler stands
    req,        \* per client: the request being (or last) served
    loc,        \* per client: the handler's local variables
    res         \* per client: the response sent

vars == <<students, batches, nextId, nreq, pc, req, loc, res>>

StudentIds == DOMAIN students

NoRequest == [op |-> "none", body |-> NoUpdate, param |-> Undefined]

NoClass == [_id |-> Undefined, name |-> Undefined, classLevel |-> Undefined]

\* a document of the Student collection as createStudent builds it
NewStudent(id, body, userId) ==
    [_id |-> id, auth_id |-> body.auth_id, student_id |-> body.student_id,
     user_id |-> userId, role |-> body.role, class |-> NoClass,
     subject_id |-> {}, board_id |-> Undefined,
     subscribed_Package |-> Undefined, is_paid |-> FALSE,
     subscription_id |-> Undefined, payment_id |-> Undefined,
     last_online |-> Undefined, phone_number |-> Undefined,
     batch_creation |-> <<>>]

NoDocument ==
    NewStudent(Undefined, [auth_id |-> Undefined, student_id |-> Undefined,
                           role |-> Undefined], Undefined)

\* the handlers' local variables: updateStudent's student (as loaded, and
\* as assigned to), createBatch's validStudentsCount, its transaction, the
\* documents its bulkWrite has written inside the transaction, whether a
\* roster document changed since the transaction's snapshot, the error
\* its catch block received, and how many times createBatch has called
\* commitTransaction, abortTransaction and endSession
NoLocals ==
    [loaded |-> NoDocument, student |-> NoDocument,
     validStudentsCount |-> 0, txn |-> "none", written |-> {},
     dirty |-> FALSE, error |-> "none",
     commits |-> 0, aborts |-> 0, ends |-> 0]

\* the part of a response that only getAllBatches fills: batches,
\* totalPages and currentPage
NoPage == [batches |-> <<>>, totalPages |-> 0, currentPage |-> 0]

NoResponse == [status |-> 0, message |-> "", data |-> {}, page |-> NoPage]

Response(status, message, data) ==
    [status |-> status, message |-> message, data |-> data, page |-> NoPage]

InFlight(c) == pc[c] \notin {"idle", "done"}

\* a request goes to the first handler that is free
CanAccept(c) ==
    /\ nreq < MaxRequests
    /\ \E i \in 1..Len(ClientOrder) :
          /\ ClientOrder[i] = c
          /\ ~InFlight(c)
          /\ \A j \in 1..(i - 1) : InFlight(ClientOrder[j])

\* a response stays on record until the next step of any handler
Forget(f, blank) == [d \in Clients |-> IF pc[d] = "done" THEN blank ELSE f[d]]

(* ---------------------------- documents ------------------------------- *)

\* a paid, subscribed student whose batch_creation already holds a
\* status:false entry (the entries the eligibility query's comment names)
SeededStudent ==
    [NewStudent("o1", [auth_id |-> "a1", student_id |-> "i1", role |-> "student"], "u1")
        EXCEPT !.subscribed_Package = "P1", !.is_paid = TRUE,
               !.batch_creation = <<[subject_id |-> "S1", status |-> FALSE]>>]

\* the directories a run starts from: empty, or holding the seeded student
InitialDirectories == {<<>>, <<SeededStudent>>}

Init ==
    /\ \E dir \in InitialDirectories :
          /\ students = [id \in {dir[i]._id : i \in 1..Len(dir)} |->
                            CHOOSE d \in {dir[i] : i \in 1..Len(dir)} : d._id = id]
          /\ nextId = Len(dir) + 1
    /\ batches = <<>>
    /\ nreq = 0
    /\ pc = [c \in Clients |-> "idle"]
    /\ req = [c \in Clients |-> NoRequest]
    /\ loc = [c \in Clients |-> NoLocals]
    /\ res = [c \in Clients |-> NoResponse]

(* ------------------------ the database layer -------------------------- *)

Range(q) == {q[i] : i \in 1..Len(q)}

\* the roster of the createBatch request client d is serving
Roster(d) == Range(req[d].body.students.v)

\* documents written inside a transaction that has not ended yet: any other
\* write to one of them waits (outside a transaction) or fails (inside one)
LockedByOthers(c) ==
    UNION {loc[d].written : d \in {e \in Clients \ {c} : pc[e] = "cbCommit"}}

\* the locals after client c's step, which wrote the documents `ids`: a
\* transaction whose snapshot is open and whose roster holds one of them
\* has lost the version of the document it reads
LocalsAfter(c, mine, ids) ==
    [d \in Clients |->
        IF d = c THEN mine
        ELSE IF pc[d] = "cbBulkWrite" /\ Roster(d) \cap ids # {}
             THEN [loc[d] EXCEPT !.dirty = TRUE]
             ELSE Forget(loc, NoLocals)[d]]

\* the storage layer's verdict on inserting a student document: the spec
\* states that no uniqueness constraint is enforced there
UniqueIndexRejects(doc) == FALSE

\* $push in the place of $addToSet
AddToSet_Push(array, element) == Append(array, element)

\* $addToSet: append the element unless an identical one is present
AddToSet(array, element) ==
    IF \E i \in 1..Len(array) : array[i] = element THEN array
    ELSE Append(array, element)

\* the handler sends its response and returns
Respond(c, response) ==
    /\ res' = [Forget(res, NoResponse) EXCEPT ![c] = response]
    /\ pc' = [Forget(pc, "idle") EXCEPT ![c] = "done"]

\* the handler goes on to its next database call
Await(c, label) ==
    /\ res' = [Forget(res, NoResponse) EXCEPT ![c] = NoResponse]
    /\ pc' = [Forget(pc, "idle") EXCEPT ![c] = label]

Accept(c, op, body, param) ==
    /\ CanAccept(c)
    /\ nreq' = nreq + 1
    /\ req' = [Forget(req, NoRequest) EXCEPT ![c] =
                  [op |-> op, body |-> body, param |-> param]]

\* the request in service is the same after a later step of its handler
SameRequest == req' = Forget(req, NoRequest)

(* ------------------------- Student Directory -------------------------- *)

\* the response of getStudentById in the current state: Student.findById
GetStudentByIdResponse(id) ==
    IF ~IsValidObjectId(id)
    THEN Response(400, "Invalid student ID format.", {})
    ELSE IF id \notin StudentIds
    THEN Response(404, "Student not found.", {})
    ELSE Response(200, "", {id})

GetStudentById(c) ==
    \E id \in GetStudentIdInputs :
        /\ Accept(c, "getStudentById", NoUpdate, id)
        /\ loc' = LocalsAfter(c, NoLocals, {})
        /\ Respond(c, GetStudentByIdResponse(id))
        /\ UNCHANGED <<students, batches, nextId>>

ValidRoles == {"student", "admin"}

\* the existence check on auth_id alone
ExistingStudents_AuthIdOnly(body) ==
    {id \in StudentIds : students[id].auth_id = body.auth_id}

\* Student.findOne({ $or: [{ auth_id }, { student_id }] })
ExistingStudents(body) ==
    {id \in StudentIds : \/ students[id].auth_id = body.auth_id
                         \/ students[id].student_id = body.student_id}

\* createStudent up to its existence check: the role and student_id
\* validations, then findOne and the 409 it may lead to
CreateStudentFind(c) ==
    \E body \in StudentBodies :
        /\ Accept(c, "createStudent", body, Undefined)
        /\ loc' = LocalsAfter(c, NoLocals, {})
        /\ UNCHANGED <<students, batches, nextId>>
        /\ IF body.role \notin ValidRoles
           THEN Respond(c, Response(400, "Invalid role. Must be student or admin.", {}))
           ELSE IF ~IsValidObjectId(body.student_id)
           THEN Respond(c, Response(400, "Invalid student_id format.", {}))
           ELSE IF ExistingStudents(body) # {}
           THEN Respond(c, Response(409,
                    "Student with this auth_id or student_id already exists.", {}))
           ELSE Await(c, "csSave")

\* the insert made only when the existence check still finds nothing
CreateStudentSave_Rechecks(c) ==
    /\ pc[c] = "csSave"
    /\ LET body == req[c].body
           doc == NewStudent(NewObjectIds[nextId], body, NewObjectId(body.user_id))
       IN  IF ExistingStudents(body) # {}
           THEN /\ Respond(c, Response(409,
                       "Student with this auth_id or student_id already exists.", {}))
                /\ UNCHANGED <<students, nextId>>
           ELSE /\ students' = [id \in StudentIds \cup {doc._id} |->
                                   IF id = doc._id THEN doc ELSE students[id]]
                /\ nextId' = nextId + 1
                /\ Respond(c, Response(201, "Student created successfully", {doc._id}))
    /\ loc' = LocalsAfter(c, loc[c], {})
    /\ SameRequest
    /\ UNCHANGED <<batches, nreq>>

\* createStudent from `new Student(...)` on: new ObjectId(user_id) throws
\* on a malformed user_id; otherwise the document is inserted
CreateStudentSave(c) ==
    /\ pc[c] = "csSave"
    /\ LET body == req[c].body
           doc == NewStudent(NewObjectIds[nextId], body, NewObjectId(body.user_id))
       IN  IF ObjectIdThrows(body.user_id) \/ UniqueIndexRejects(doc)
           THEN /\ Respond(c, Response(500, "Internal server error", {}))
                /\ UNCHANGED <<students, nextId>>
           ELSE /\ students' = [id \in StudentIds \cup {doc._id} |->
                                   IF id = doc._id THEN doc ELSE students[id]]
                /\ nextId' = nextId + 1
                /\ Respond(c, Response(201, "Student created successfully", {doc._id}))
    /\ loc' = LocalsAfter(c, loc[c], {})
    /\ SameRequest
    /\ UNCHANGED <<batches, nreq>>

\* deleteStudent: Student.findOneAndDelete({ student_id: id })
DeleteStudent(c) ==
    \E id \in StudentIdInputs :
        /\ Accept(c, "deleteStudent", NoUpdate, id)
        /\ UNCHANGED <<batches, nextId>>
        /\ IF ~IsValidObjectId(id)
           THEN /\ Respond(c, Response(400, "Invalid student ID format.", {}))
                /\ loc' = LocalsAfter(c, NoLocals, {})
                /\ UNCHANGED students
           ELSE LET found == {s \in StudentIds : students[s].student_id = id}
                IN  IF found = {}
                    THEN /\ Respond(c, Response(404, "Student not found", {}))
                         /\ loc' = LocalsAfter(c, NoLocals, {})
                         /\ UNCHANGED students
                    ELSE \E s \in found \ LockedByOthers(c) :
                            /\ students' = [t \in StudentIds \ {s} |-> students[t]]
                            /\ loc' = LocalsAfter(c, NoLocals, {s})
                            /\ Respond(c, Response(200, "Student deleted successfully", {}))

\* the assignments with is_paid taken like the other fields, by ||
Assigned_IsPaidOr(student, updateData, class) ==
    [student EXCEPT
        !.class = IF Falsy(updateData.class_id) THEN @ ELSE class,
        !.auth_id = IF Falsy(updateData.auth_id) THEN @ ELSE updateData.auth_id,
        !.student_id = IF Falsy(updateData.student_id) THEN @ ELSE updateData.student_id,
        !.user_id = IF Falsy(updateData.user_id) THEN @ ELSE updateData.user_id,
        !.subscribed_Package =
            IF Falsy(updateData.subscribed_Package) THEN @
            ELSE updateData.subscribed_Package,
        !.is_paid = IF updateData.is_paid = "true" THEN TRUE ELSE @,
        !.subscription_id =
            IF Falsy(updateData.subscription_id) THEN @ ELSE updateData.subscription_id,
        !.payment_id = IF Falsy(updateData.payment_id) THEN @ ELSE updateData.payment_id,
        !.last_online = IF Falsy(updateData.last_online) THEN @ ELSE updateData.last_online,
        !.phone_number =
            IF Falsy(updateData.phone_number) THEN @ ELSE updateData.phone_number]

\* the student document after updateStudent's assignments (lines 281-300)
Assigned(student, updateData, class) ==
    [student EXCEPT
        !.class = IF Falsy(updateData.class_id) THEN @ ELSE class,
        !.auth_id = IF Falsy(updateData.auth_id) THEN @ ELSE updateData.auth_id,
        !.student_id = IF Falsy(updateData.student_id) THEN @ ELSE updateData.student_id,
        !.user_id = IF Falsy(updateData.user_id) THEN @ ELSE updateData.user_id,
        !.subscribed_Package =
            IF Falsy(updateData.subscribed_Package) THEN @
            ELSE updateData.subscribed_Package,
        !.is_paid = IF updateData.is_paid # Undefined
                    THEN updateData.is_paid = "true" ELSE @,
        !.subscription_id =
            IF Falsy(updateData.subscription_id) THEN @ ELSE updateData.subscription_id,
        !.payment_id = IF Falsy(updateData.payment_id) THEN @ ELSE updateData.payment_id,
        !.last_online = IF Falsy(updateData.last_online) THEN @ ELSE updateData.last_online,
        !.phone_number =
            IF Falsy(updateData.phone_number) THEN @ ELSE updateData.phone_number]

\* classInfo as copied into the student document
ClassSnapshot(class_id) ==
    [_id |-> class_id, name |-> ClassRecords[class_id].className,
     classLevel |-> ClassRecords[class_id].classLevel]

\* updateStudent up to the call of save: findOne by user_id, the class
\* lookup, and the assignments to the loaded document
UpdateStudentFind(c) ==
    \E request \in UpdateRequests :
        /\ Accept(c, "updateStudent", request[2], request[1])
        /\ UNCHANGED <<students, batches, nextId>>
        /\ LET studentId == request[1]
               body == request[2]
               found == {s \in StudentIds : students[s].user_id = studentId}
               fail(status, message) ==
                   /\ Respond(c, Response(status, message, {}))
                   /\ loc' = LocalsAfter(c, NoLocals, {})
           IN  IF ~IsValidObjectId(studentId)
               THEN fail(500, "Internal server error")
               ELSE IF found = {}
               THEN fail(404, "Student not found")
               ELSE IF ~Falsy(body.class_id) /\ ~IsValidObjectId(body.class_id)
               THEN fail(500, "Internal server error")
               ELSE IF ~Falsy(body.class_id) /\ body.class_id \notin DOMAIN ClassRecords
               THEN fail(404, "Class not found")
               ELSE \E s \in found :
                      /\ loc' = LocalsAfter(c,
                            [NoLocals EXCEPT
                                !.loaded = students[s],
                                !.student = Assigned(students[s], body,
                                    IF Falsy(body.class_id) THEN NoClass
                                    ELSE ClassSnapshot(body.class_id))], {})
                      /\ Await(c, "usSave")

\* every path of the document written back, changed or not
ModifiedPaths_WholeDocument(loaded, student) == DOMAIN student

\* the paths of the loaded document that the assignments changed
ModifiedPaths(loaded, student) ==
    {f \in DOMAIN student : student[f] # loaded[f]}

\* student.save(): the modified paths are set on the stored document; the
\* save fails when that document is gone
UpdateStudentSave(c) ==
    /\ pc[c] = "usSave"
    /\ LET id == loc[c].loaded._id
           paths == ModifiedPaths(loc[c].loaded, loc[c].student)
       IN  IF id \notin StudentIds
           THEN /\ Respond(c, Response(500, "Internal server error", {}))
                /\ loc' = LocalsAfter(c, loc[c], {})
                /\ UNCHANGED students
           ELSE /\ paths = {} \/ id \notin LockedByOthers(c)
                /\ students' = [students EXCEPT ![id] =
                       [f \in DOMAIN @ |-> IF f \in paths THEN loc[c].student[f] ELSE @[f]]]
                /\ loc' = LocalsAfter(c, loc[c], IF paths = {} THEN {} ELSE {id})
                /\ Respond(c, Response(200, "Student updated successfully", {id}))
    /\ SameRequest
    /\ UNCHANGED <<batches, nextId, nreq>>

(* --------------------------- Batch Registry --------------------------- *)

\* the marker written with status false
Marker_StatusFalse(subject_id) == [subject_id |-> subject_id, status |-> FALSE]

\* the marker createBatch adds to every roster student
Marker(subject_id) == [subject_id |-> subject_id, status |-> TRUE]

\* createBatch's check of the required fields (lines 23-31)
FieldMissing(body) ==
    \/ Falsy(body.batch_name)
    \/ Falsy(body.subject_id)
    \/ Falsy(body.class_id)
    \/ Falsy(body.teacher_id)
    \/ body.students.t = Undefined
    \/ Falsy(body.date)
    \/ Falsy(body.type_of_batch)

\* the count taken for the roster's length, whatever the collection holds
CountDocuments_Unchecked(ids) == Len(ids)

\* the count taken per entry of the roster: an existing student is counted
\* as many times as the roster names it
CountDocuments_PerEntry(ids) ==
    Cardinality({i \in 1..Len(ids) : ids[i] \in StudentIds})

\* Student.countDocuments({ _id: { $in: students } })
CountDocuments(ids) == Cardinality({id \in StudentIds : id \in Range(ids)})

\* the Batch document built from the request body
NewBatch(body) == [body EXCEPT !.students = body.students.v]

\* session.abortTransaction() followed by session.endSession()
AbortAndEnd(locals) ==
    [locals EXCEPT !.txn = "aborted", !.aborts = @ + 1, !.ends = @ + 1]

\* the response of createBatch's catch block
CatchResponse(error) ==
    IF error = "CastError" THEN Response(400, "Invalid ID format", {})
    ELSE Response(500, error, {})

\* the catch block: abort the transaction, end the session, respond
Catch(c, error) ==
    /\ loc' = LocalsAfter(c, AbortAndEnd([loc[c] EXCEPT !.error = error,
                                                         !.written = {}]), {})
    /\ Respond(c, CatchResponse(error))

\* createBatch up to the existence count: the session and transaction are
\* started, the body is validated, the roster's students are counted
CreateBatchValidate(c) ==
    \E body \in BatchBodies :
        /\ Accept(c, "createBatch", body, Undefined)
        /\ UNCHANGED <<students, batches, nextId>>
        /\ LET started == [NoLocals EXCEPT !.txn = "active"]
               count == CountDocuments(body.students.v)
           IN  IF FieldMissing(body)
               THEN /\ loc' = LocalsAfter(c, AbortAndEnd(started), {})
                    /\ Respond(c, Response(400, "All fields are required", {}))
               ELSE IF body.students.t # "array"
               THEN /\ loc' = LocalsAfter(c, AbortAndEnd(started), {})
                    /\ Respond(c, Response(400,
                           "'students' must be an array of student IDs", {}))
               ELSE IF \E id \in Range(body.students.v) : ~IsValidObjectId(id)
               THEN /\ loc' = LocalsAfter(c,
                           AbortAndEnd([started EXCEPT !.error = "CastError"]), {})
                    /\ Respond(c, CatchResponse("CastError"))
               ELSE IF count # Len(body.students.v)
               THEN /\ loc' = LocalsAfter(c,
                           AbortAndEnd([started EXCEPT
                               !.validStudentsCount = count,
                               !.error = "One or more student IDs are invalid"]), {})
                    /\ Respond(c, CatchResponse("One or more student IDs are invalid"))
               ELSE /\ loc' = LocalsAfter(c,
                           [started EXCEPT !.validStudentsCount = count], {})
                    /\ Await(c, "cbSave")

\* newBatch.save({ session }): the transaction's first operation, which
\* opens its snapshot; the batch is not visible before the commit
CreateBatchSave(c) ==
    /\ pc[c] = "cbSave"
    /\ loc' = LocalsAfter(c, [loc[c] EXCEPT !.dirty = FALSE], {})
    /\ Await(c, "cbBulkWrite")
    /\ SameRequest
    /\ UNCHANGED <<students, batches, nextId, nreq>>

\* the documents Student.bulkWrite writes: the roster's students that
\* exist and that the $addToSet changes
BulkWriteTargets(roster, subject_id) ==
    {id \in Range(roster) \cap StudentIds :
        AddToSet(students[id].batch_creation, Marker(subject_id))
            # students[id].batch_creation}

\* Student.bulkWrite(bulkOps, { session }): with no operation the call
\* either fails or returns, by the version of the library; a document
\* changed since the snapshot, or written by another open transaction,
\* is a write conflict
CreateBatchBulkWrite(c) ==
    /\ pc[c] = "cbBulkWrite"
    /\ SameRequest
    /\ UNCHANGED <<students, batches, nextId, nreq>>
    /\ LET body == req[c].body
           targets == BulkWriteTargets(body.students.v, body.subject_id)
           staged ==
               /\ loc' = LocalsAfter(c, [loc[c] EXCEPT !.written = targets], {})
               /\ Await(c, "cbCommit")
       IN  IF Len(body.students.v) = 0
           THEN staged \/ Catch(c, "Invalid BulkOperation, Batch cannot be empty")
           ELSE IF loc[c].dirty \/ targets \cap LockedByOthers(c) # {}
           THEN Catch(c, "WriteConflict")
           ELSE staged

\* session.commitTransaction(): the batch and the markers become visible
\* together
CreateBatchCommit(c) ==
    /\ pc[c] = "cbCommit"
    /\ LET body == req[c].body
       IN  /\ batches' = Append(batches, NewBatch(body))
           /\ students' = [id \in StudentIds |->
                  IF id \in loc[c].written
                  THEN [students[id] EXCEPT !.batch_creation =
                            AddToSet(@, Marker(body.subject_id))]
                  ELSE students[id]]
           /\ loc' = LocalsAfter(c, [loc[c] EXCEPT !.txn = "committed", !.written = {},
                                                    !.commits = @ + 1, !.ends = @ + 1],
                                 loc[c].written)
           /\ Respond(c, Response(201, "Batch created successfully", {}))
    /\ SameRequest
    /\ UNCHANGED <<nextId, nreq>>

(* ------------------- createBatch: data-layer failures ------------------ *)

\* an exception leaves the handler: its promise rejects and the handler
\* sends no response
Unhandled(c) == Respond(c, NoResponse)

\* mongoose.startSession() rejects: the call stands before the try block
CreateBatchStartSessionFails(c) ==
    \E body \in BatchBodies :
        /\ Accept(c, "createBatch", body, Undefined)
        /\ loc' = LocalsAfter(c, [NoLocals EXCEPT !.error = "MongoNetworkError"], {})
        /\ Unhandled(c)
        /\ UNCHANGED <<students, batches, nextId>>

\* Student.countDocuments rejects: the catch block aborts, ends the
\* session and answers 500
CreateBatchCountFails(c) ==
    \E body \in BatchBodies :
        /\ ~FieldMissing(body)
        /\ body.students.t = "array"
        /\ Accept(c, "createBatch", body, Undefined)
        /\ loc' = LocalsAfter(c,
               AbortAndEnd([NoLocals EXCEPT !.error = "MongoNetworkError"]), {})
        /\ Respond(c, CatchResponse("MongoNetworkError"))
        /\ UNCHANGED <<students, batches, nextId>>

\* newBatch.save or Student.bulkWrite rejects
CreateBatchWriteFails(c) ==
    /\ pc[c] \in {"cbSave", "cbBulkWrite"}
    /\ Catch(c, "MongoNetworkError")
    /\ SameRequest
    /\ UNCHANGED <<students, batches, nextId, nreq>>

\* session.commitTransaction() rejects, with the transaction committed on
\* the server or not; the catch block then calls abortTransaction on a
\* session whose commit has been called: the call throws out of the catch
\* block, or it returns and the session is ended and 500 is sent
CreateBatchCommitFails(c) ==
    /\ pc[c] = "cbCommit"
    /\ LET body == req[c].body
           called == [loc[c] EXCEPT !.txn = "unknown", !.written = {},
                                    !.error = "MongoNetworkError",
                                    !.commits = @ + 1, !.aborts = @ + 1]
       IN  /\ \/ /\ UNCHANGED <<students, batches>>
                  /\ \/ /\ loc' = LocalsAfter(c, called, {})
                        /\ Unhandled(c)
                     \/ /\ loc' = LocalsAfter(c, [called EXCEPT !.ends = @ + 1], {})
                        /\ Respond(c, CatchResponse("MongoNetworkError"))
              \/ /\ batches' = Append(batches, NewBatch(body))
                 /\ students' = [id \in StudentIds |->
                        IF id \in loc[c].written
                        THEN [students[id] EXCEPT !.batch_creation =
                                  AddToSet(@, Marker(body.subject_id))]
                        ELSE students[id]]
                 /\ \/ /\ loc' = LocalsAfter(c, called, loc[c].written)
                       /\ Unhandled(c)
                    \/ /\ loc' = LocalsAfter(c, [called EXCEPT !.ends = @ + 1],
                                             loc[c].written)
                       /\ Respond(c, CatchResponse("MongoNetworkError"))
    /\ SameRequest
    /\ UNCHANGED <<nextId, nreq>>

(* ---------------------------- getAllBatches ---------------------------- *)

\* the defaults of page and limit
DefaultPage == 1
DefaultLimit == 100

\* parseInt of a query parameter (a string of digits), or of the default
Numerals == <<"1", "2", "3", "4">>
ParseInt(x, default) ==
    IF x = Undefined THEN default
    ELSE CHOOSE n \in 1..Len(Numerals) : Numerals[n] = x

\* the batches (by position in the collection, which stands for their _id)
\* that the query built from teacher_id and students selects, in order
MatchingBatches(query) ==
    LET Matches(i) ==
            /\ query.teacher_id = Undefined \/ batches[i].teacher_id = query.teacher_id
            /\ query.students = Undefined \/ query.students \in Range(batches[i].students)
        RECURSIVE From(_)
        From(i) == IF i > Len(batches) THEN <<>>
                   ELSE IF Matches(i) THEN <<i>> \o From(i + 1)
                   ELSE From(i + 1)
    IN  From(1)

\* the total page count as the quotient alone
TotalPages_Ceil(count, limit) == (count + limit - 1) \div limit

\* the total page count Batch.paginate reports: Math.ceil(count / limit) || 1
TotalPages(count, limit) ==
    IF (count + limit - 1) \div limit = 0 THEN 1 ELSE (count + limit - 1) \div limit

\* populate of the students path: the ids of students that do not exist
\* are dropped from the array
RECURSIVE Populate(_)
Populate(roster) ==
    IF roster = <<>> THEN <<>>
    ELSE IF Head(roster) \in StudentIds THEN <<Head(roster)>> \o Populate(Tail(roster))
    ELSE Populate(Tail(roster))

\* Batch.paginate(query, options) and the studentcount added to each document
GetAllBatchesResponse(query) ==
    LET page == ParseInt(query.page, DefaultPage)
        limit == ParseInt(query.limit, DefaultLimit)
        matching == MatchingBatches(query)
        skip == (page - 1) * limit
        docs == SubSeq(matching, skip + 1,
                       IF skip + limit < Len(matching) THEN skip + limit ELSE Len(matching))
    IN  [Response(200, "Batches fetched successfully", {}) EXCEPT
            !.page = [batches |->
                         [k \in 1..Len(docs) |->
                             [_id |-> docs[k],
                              students |-> Populate(batches[docs[k]].students),
                              studentcount |-> Len(Populate(batches[docs[k]].students))]],
                      totalPages |-> TotalPages(Len(matching), limit),
                      currentPage |-> page]]

GetAllBatches(c) ==
    \E query \in BatchQueries :
        /\ Accept(c, "getAllBatches", query, Undefined)
        /\ loc' = LocalsAfter(c, NoLocals, {})
        /\ Respond(c, GetAllBatchesResponse(query))
        /\ UNCHANGED <<students, batches, nextId>>

(* -------------------------- Eligibility Query ------------------------- *)

\* the match on status alone
ElemMatch_AnySubject(batch_creation, subjectId) ==
    \E i \in 1..Len(batch_creation) : batch_creation[i].status = TRUE

\* the match on subject_id alone
ElemMatch_AnyStatus(batch_creation, subjectId) ==
    \E i \in 1..Len(batch_creation) : batch_creation[i].subject_id = subjectId

\* batch_creation: { $elemMatch: { subject_id: subjectId, status: true } }
ElemMatch(batch_creation, subjectId) ==
    \E i \in 1..Len(batch_creation) :
        /\ batch_creation[i].subject_id = subjectId
        /\ batch_creation[i].status = TRUE

\* the filter of Student.find in getStudentsforBatchBySubject
EligibleFilter(student, packageIds, subjectId) ==
    /\ student.subscribed_Package \in packageIds
    /\ student.is_paid = TRUE
    /\ \/ Len(student.batch_creation) = 0
       \/ ~ElemMatch(student.batch_creation, subjectId)

\* Package.find({ subject_id: subjectId }).select("_id")
PackagesWithSubject(subjectId) ==
    {p \in DOMAIN PackageSubjects : subjectId \in PackageSubjects[p]}

\* the response of getStudentsforBatchBySubject in the current state
EligibilityResponse(subjectId) ==
    IF ~IsValidObjectId(subjectId)
    THEN Response(400, "Invalid subject ID", {})
    ELSE IF subjectId \notin SubjectIds
    THEN Response(404, "Subject not found", {})
    ELSE IF PackagesWithSubject(subjectId) = {}
    THEN Response(404, "No packages found for this subject", {})
    ELSE LET found == {id \in StudentIds :
                          EligibleFilter(students[id], PackagesWithSubject(subjectId),
                                         subjectId)}
         IN  IF found = {}
             THEN Response(404, "No eligible students found for this subject", {})
             ELSE Response(200, "Students retrieved successfully", found)

GetStudentsforBatchBySubject(c) ==
    \E subjectId \in SubjectInputs :
        /\ Accept(c, "getStudentsforBatchBySubject", NoUpdate, subjectId)
        /\ loc' = LocalsAfter(c, NoLocals, {})
        /\ Respond(c, EligibilityResponse(subjectId))
        /\ UNCHANGED <<students, batches, nextId>>

(* --------------------------- specifications --------------------------- *)

Step(c) ==
    \/ CreateStudentFind(c)
    \/ CreateStudentSave(c)
    \/ GetStudentById(c)
    \/ DeleteStudent(c)
    \/ UpdateStudentFind(c)
    \/ UpdateStudentSave(c)
    \/ CreateBatchValidate(c)
    \/ CreateBatchSave(c)
    \/ CreateBatchBulkWrite(c)
    \/ CreateBatchCommit(c)
    \/ GetAllBatches(c)
    \/ GetStudentsforBatchBySubject(c)

\* requests are served concurrently: any client may take the next step
Next == \E c \in Clients : Step(c)

Spec == Init /\ [][Next]_vars

\* requests are served one after the other: a client steps only while no
\* other client's handler is in flight
Alone(c) == \A d \in Clients \ {c} : ~InFlight(d)

NextSeq ==
    \E c \in Clients :
        \/ Alone(c) /\ CreateStudentFind(c)
        \/ Alone(c) /\ CreateStudentSave(c)
        \/ Alone(c) /\ GetStudentById(c)
        \/ Alone(c) /\ DeleteStudent(c)
        \/ Alone(c) /\ UpdateStudentFind(c)
        \/ Alone(c) /\ UpdateStudentSave(c)
        \/ Alone(c) /\ CreateBatchValidate(c)
        \/ Alone(c) /\ CreateBatchSave(c)
        \/ Alone(c) /\ CreateBatchBulkWrite(c)
        \/ Alone(c) /\ CreateBatchCommit(c)
        \/ Alone(c) /\ GetAllBatches(c)
        \/ Alone(c) /\ GetStudentsforBatchBySubject(c)

SpecSeq == Init /\ [][NextSeq]_vars

\* requests are served concurrently and a call of createBatch to the data
\* layer may fail
NextFaults ==
    \/ Next
    \/ \E c \in Clients :
          \/ CreateBatchStartSessionFails(c)
          \/ CreateBatchCountFails(c)
          \/ CreateBatchWriteFails(c)
          \/ CreateBatchCommitFails(c)

SpecFaults == Init /\ [][NextFaults]_vars

(* ------------------------------ claims -------------------------------- *)

\* the step is one of client c's handler: it accepts a request, or it goes
\* on with the request in service
Acts(c) ==
    \/ nreq' = nreq + 1 /\ CanAccept(c)
    \/ nreq' = nreq /\ InFlight(c) /\ pc'[c] # pc[c]

Served(c, op) == pc[c] = "done" /\ req[c].op = op

HasEntry(id, subject, status) ==
    \E k \in 1..Len(students[id].batch_creation) :
        /\ students[id].batch_creation[k].subject_id = subject
        /\ students[id].batch_creation[k].status = status

\* the roster is an array holding an id that is no existing Student record
InvalidRoster(body) ==
    /\ body.students.t = "array"
    /\ \E id \in Range(body.students.v) : id \notin StudentIds

MarkersUnchanged ==
    /\ DOMAIN students' = DOMAIN students
    /\ \A id \in StudentIds : students'[id].batch_creation = students[id].batch_creation

\* C1: served one request after the other, no step of a createBatch request
\* whose roster holds an id that is not an existing Student changes the
\* Batch records or any student's batch_creation, and the request ends at
\* once with a failure
C1_InvalidRosterAllOrNothing ==
    [][\A c \in Clients :
          (Acts(c) /\ req'[c].op = "createBatch" /\ InvalidRoster(req'[c].body))
              => /\ batches' = batches
                 /\ MarkersUnchanged
                 /\ pc'[c] = "done"
                 /\ res'[c].status >= 400]_vars

C1_Witness ==
    \E c \in Clients :
        /\ Served(c, "createBatch")
        /\ ~FieldMissing(req[c].body)
        /\ InvalidRoster(req[c].body)
        /\ \E id \in Range(req[c].body.students.v) : id \in StudentIds
        /\ \A id \in Range(req[c].body.students.v) : IsValidObjectId(id)
        /\ res[c].status = 500
        /\ batches = <<>>

\* C2: served one request after the other, when createBatch answers 201 a
\* Batch record with the request's roster and subject exists, and every
\* student of the roster exists and holds {subject_id, status: true}
C2_SuccessPersistsBatchAndMarkers ==
    \A c \in Clients :
        (Served(c, "createBatch") /\ res[c].status = 201)
            => /\ \E i \in 1..Len(batches) :
                    /\ batches[i].students = req[c].body.students.v
                    /\ batches[i].subject_id = req[c].body.subject_id
               /\ \A id \in Range(req[c].body.students.v) :
                    /\ id \in StudentIds
                    /\ HasEntry(id, req[c].body.subject_id, TRUE)

C2_Witness ==
    \E c \in Clients :
        /\ Served(c, "createBatch")
        /\ res[c].status = 201
        /\ Cardinality(Range(req[c].body.students.v)) >= 1

\* C3: in every reachable state, every existing student in the roster of a
\* persisted batch holds {the batch's subject, true}, and every
\* {S, true} entry of a student has a persisted batch for S whose roster
\* holds the student
C3_BatchesAndMarkersAgree ==
    /\ \A i \in 1..Len(batches) :
          \A id \in Range(batches[i].students) \cap StudentIds :
              HasEntry(id, batches[i].subject_id, TRUE)
    /\ \A id \in StudentIds :
          \A k \in 1..Len(students[id].batch_creation) :
              students[id].batch_creation[k].status = TRUE
                  => \E i \in 1..Len(batches) :
                        /\ batches[i].subject_id = students[id].batch_creation[k].subject_id
                        /\ id \in Range(batches[i].students)

C3_Witness ==
    \E c \in Clients :
        /\ Served(c, "updateStudent")
        /\ res[c].status = 200
        /\ \E id \in res[c].data \cap StudentIds :
              /\ ModifiedPaths(loc[c].loaded, loc[c].student) # {}
              /\ \E i \in 1..Len(batches) : id \in Range(batches[i].students)

\* the student is paid, subscribed to a package containing the subject,
\* and holds no {subject, true} entry
Assignable(id, subject) ==
    /\ students[id].is_paid = TRUE
    /\ \E p \in DOMAIN PackageSubjects :
          /\ students[id].subscribed_Package = p
          /\ subject \in PackageSubjects[p]
    /\ ~HasEntry(id, subject, TRUE)

\* C4: once a batch for subject S with student A in its roster is
\* persisted, the eligibility query for S does not return A, while the
\* query for any other subject S2 returns A whenever A is paid, A's package
\* contains S2 and A holds no {S2, true} entry
C4_BatchChangesEligibilityForItsSubjectOnly ==
    \A i \in 1..Len(batches) :
        \A id \in Range(batches[i].students) \cap StudentIds :
            /\ id \notin EligibilityResponse(batches[i].subject_id).data
            /\ \A other \in SubjectIds \ {batches[i].subject_id} :
                  Assignable(id, other)
                      => /\ EligibilityResponse(other).status = 200
                         /\ id \in EligibilityResponse(other).data

C4_Witness ==
    \E c \in Clients :
        /\ Served(c, "getStudentsforBatchBySubject")
        /\ req[c].param = "S2"
        /\ res[c].status = 200
        /\ \E id \in res[c].data, i \in 1..Len(batches) :
              /\ batches[i].subject_id = "S1"
              /\ id \in Range(batches[i].students)
              /\ id \notin EligibilityResponse("S1").data

\* C5: a student in the rosters of persisted batches for subject S is not
\* eligible for S and holds exactly one {S, true} entry, however many such
\* batches there are
C5_OneMarkerPerSubject ==
    \A i \in 1..Len(batches) :
        \A id \in Range(batches[i].students) \cap StudentIds :
            /\ id \notin EligibilityResponse(batches[i].subject_id).data
            /\ Cardinality({k \in 1..Len(students[id].batch_creation) :
                               students[id].batch_creation[k] =
                                   [subject_id |-> batches[i].subject_id,
                                    status |-> TRUE]}) = 1

C5_Witness ==
    \E i, j \in 1..Len(batches) :
        /\ i < j
        /\ batches[i].subject_id = batches[j].subject_id
        /\ \E id \in StudentIds :
              /\ id \in Range(batches[i].students)
              /\ id \in Range(batches[j].students)
              /\ batches[i].students # batches[j].students
        /\ \E c \in Clients : Served(c, "createBatch") /\ res[c].status = 201

\* C6: for a subject that exists and that some package contains, the
\* eligibility query returns exactly the students that are paid, subscribed
\* to a package containing the subject, and without a {subject, true}
\* entry (404 when there is none); this is also what every served
\* query answered
C6_EligibilityQueryExact ==
    /\ \A subject \in SubjectIds :
          PackagesWithSubject(subject) # {}
              => LET eligible == {id \in StudentIds : Assignable(id, subject)}
                 IN  /\ EligibilityResponse(subject).data = eligible
                     /\ EligibilityResponse(subject).status =
                            IF eligible = {} THEN 404 ELSE 200
    /\ \A c \in Clients :
          (Served(c, "getStudentsforBatchBySubject")
               /\ req[c].param \in SubjectIds
               /\ PackagesWithSubject(req[c].param) # {})
              => res[c].data = {id \in StudentIds : Assignable(id, req[c].param)}

C6_Witness ==
    \E c \in Clients :
        /\ Served(c, "getStudentsforBatchBySubject")
        /\ res[c].status = 200
        /\ \E id \in res[c].data : HasEntry(id, req[c].param, FALSE)
        /\ \E id \in StudentIds \ res[c].data : ~students[id].is_paid

\* the request lacks a required field, or its students is not a non-empty
\* array of identifiers
MalformedBatchRequest(body) ==
    \/ \E f \in {"batch_name", "subject_id", "class_id", "teacher_id", "date",
                 "type_of_batch"} : body[f] = Undefined
    \/ body.students.t # "array"
    \/ Len(body.students.v) = 0
    \/ \E id \in Range(body.students.v) : ~IsValidObjectId(id)

\* C7: no step of a malformed createBatch request changes the Batch records
\* or any student's batch_creation, and the request is answered 400
C7_MalformedRequestRejected ==
    [][\A c \in Clients :
          (Acts(c) /\ req'[c].op = "createBatch" /\ MalformedBatchRequest(req'[c].body))
              => /\ batches' = batches
                 /\ MarkersUnchanged
                 /\ pc'[c] = "done" => res'[c].status = 400]_vars

\* C8: a createBatch request whose existence count differs from the length
\* of its roster is answered 400
C8_CountMismatchIsValidationError ==
    \A c \in Clients :
        (/\ Served(c, "createBatch")
         /\ ~MalformedBatchRequest(req[c].body)
         /\ loc[c].validStudentsCount # Len(req[c].body.students.v))
            => res[c].status = 400

\* the step inserts exactly one document, built from the request of client
\* c, and answers 201 with it
Created(c) ==
    /\ pc'[c] = "done"
    /\ res'[c].status = 201
    /\ \E n \in DOMAIN students' \ StudentIds :
          /\ DOMAIN students' = StudentIds \cup {n}
          /\ \A id \in StudentIds : students'[id] = students[id]
          /\ students'[n].auth_id = req'[c].body.auth_id
          /\ students'[n].student_id = req'[c].body.student_id
          /\ students'[n].role = req'[c].body.role
          /\ res'[c].data = {n}

WellFormedStudentRequest(body) ==
    body.role \in {"student", "admin"} /\ IsValidObjectId(body.student_id)

C10_InsertAfterCheckIsUnconditional ==
    [][\A c \in Clients :
          (/\ Acts(c)
           /\ pc[c] = "csSave"
           /\ ~ObjectIdThrows(req[c].body.user_id)
           /\ ExistingStudents(req[c].body) # {})
              => Created(c)]_vars

\* two createStudent requests with the same auth_id and student_id have
\* both been served and have left two documents
C10_Witness ==
    /\ nreq = 2
    /\ \E c \in Clients : Served(c, "createStudent") /\ res[c].status = 201
    /\ \E id, other \in StudentIds :
          /\ id # other
          /\ students[id].auth_id = students[other].auth_id
          /\ students[id].student_id = students[other].student_id

\* C11: served one request after the other, deleteStudent(id) addresses
\* the record getStudentById(id) returns: when getStudentById(id) would
\* return a student, deleteStudent(id) is answered 200 and that record is
\* gone afterwards; and deleteStudent(id) is answered 404 exactly when
\* getStudentById(id) would be
C11_RemoveAndGetAddressTheSameRecord ==
    [][\A c \in Clients :
          (Acts(c) /\ req'[c].op = "deleteStudent")
              => LET id == req'[c].param
                 IN  /\ GetStudentByIdResponse(id).status = 200
                            => /\ res'[c].status = 200
                               /\ id \notin DOMAIN students'
                     /\ res'[c].status = 404
                            <=> GetStudentByIdResponse(id).status = 404]_vars

\* the fields updateStudent assigns from the request body as they are
PlainUpdatable ==
    {"auth_id", "student_id", "user_id", "subscribed_Package", "subscription_id",
     "payment_id", "last_online", "phone_number"}

\* the step is the save of an updateStudent request, answered 200, and
\* `absent` says which values of a body field count as not supplied: the
\* stored document keeps every field not supplied, takes every value
\* supplied (class_id as the snapshot of the class it names, is_paid
\* whenever it is not undefined), and keeps batch_creation, subject_id and
\* board_id
PartialUpdate(c, absent) ==
    (Acts(c) /\ pc[c] = "usSave" /\ res'[c].status = 200)
        => LET id == loc[c].loaded._id
               body == req[c].body
               before == students[id]
               after == students'[id]
           IN  /\ id \in StudentIds /\ id \in DOMAIN students'
               /\ \A f \in PlainUpdatable :
                     after[f] = IF body[f] \in absent THEN before[f] ELSE body[f]
               /\ after.is_paid = IF body.is_paid = Undefined THEN before.is_paid
                                  ELSE body.is_paid = "true"
               /\ after.class = IF body.class_id \in absent THEN before.class
                                ELSE ClassSnapshot(body.class_id)
               /\ after.batch_creation = before.batch_creation
               /\ after.subject_id = before.subject_id
               /\ after.board_id = before.board_id

\* C12 as stated: served one request after the other, updateStudent keeps
\* every field the request omits, gives every field present in the request
\* the supplied value, applies an explicit is_paid = false, and leaves
\* batch_creation, subject_id and board_id unchanged
C12_PartialUpdate ==
    [][\A c \in Clients : PartialUpdate(c, {Undefined})]_vars

\* C12 as amended: served one request after the other, updateStudent keeps
\* every field the request omits or supplies with an empty (falsy) value,
\* gives every field supplied with a non-empty value that value, applies
\* is_paid whenever it is not undefined (an explicit false included), and
\* leaves batch_creation, subject_id and board_id unchanged
C12_PartialUpdateOfNonEmptyFields ==
    [][\A c \in Clients : PartialUpdate(c, {Undefined, ""})]_vars

\* an update with is_paid = false has been applied to a paid student
C12_Witness ==
    \E c \in Clients :
        /\ Served(c, "updateStudent")
        /\ res[c].status = 200
        /\ req[c].body.is_paid = "false"
        /\ loc[c].loaded.is_paid = TRUE
        /\ \E id \in res[c].data \cap StudentIds : students[id].is_paid = FALSE

\* C13: served one request after the other, getAllBatches with T batches
\* matching the filter, page p and limit L answers totalPages = ceil(T / L),
\* currentPage = p and min(L, max(0, T - (p - 1) * L)) results, each with
\* studentcount equal to the length of the roster the batch holds
C13_Pagination ==
    \A c \in Clients :
        Served(c, "getAllBatches")
            => LET query == req[c].body
                   p == ParseInt(query.page, DefaultPage)
                   L == ParseInt(query.limit, DefaultLimit)
                   T == Len(MatchingBatches(query))
                   rest == IF T - (p - 1) * L > 0 THEN T - (p - 1) * L ELSE 0
                   page == res[c].page
               IN  /\ res[c].status = 200
                   /\ page.totalPages = TotalPages_Ceil(T, L)
                   /\ page.currentPage = p
                   /\ Len(page.batches) = IF L < rest THEN L ELSE rest
                   /\ \A k \in 1..Len(page.batches) :
                         page.batches[k].studentcount =
                             Len(batches[page.batches[k]._id].students)

\* C14: under any interleaving of createBatch with deleteStudent, at the
\* step that commits a batch every id of its roster is an existing Student
\* record holding the marker {subject_id, true}
C14_RosterExistsAtCommit ==
    [][\A c \in Clients :
          (Acts(c) /\ pc[c] = "cbCommit" /\ Len(batches') = Len(batches) + 1)
              => \A id \in Range(batches'[Len(batches')].students) :
                    /\ id \in DOMAIN students'
                    /\ \E k \in 1..Len(students'[id].batch_creation) :
                          students'[id].batch_creation[k] =
                              Marker(batches'[Len(batches')].subject_id)]_vars

\* C15: whenever a createBatch handler ends, on any path and also when a
\* call to the data layer has failed, it has called exactly one of
\* commitTransaction and abortTransaction, exactly once, has ended the
\* session exactly once, and has sent a response
C15_ExactlyOneOutcome ==
    [][\A c \in Clients :
          (Acts(c) /\ req'[c].op = "createBatch" /\ pc'[c] = "done")
              => /\ loc'[c].commits + loc'[c].aborts = 1
                 /\ loc'[c].ends = 1
                 /\ res'[c].status # 0]_vars

\* C16: a createBatch request with every required field and an array of
\* well-formed ids goes on to insert its batch exactly when the number of
\* distinct existing students among the ids equals the roster's length;
\* otherwise, also when every id exists but one is repeated, it is rejected
\* at once with "One or more student IDs are invalid" and nothing is
\* persisted; and no persisted batch has a repeated id in its roster
C16_RosterAcceptedIffDistinctAndExisting ==
    [][/\ \A c \in Clients :
             (/\ Acts(c) /\ nreq' = nreq + 1
              /\ req'[c].op = "createBatch"
              /\ ~FieldMissing(req'[c].body)
              /\ req'[c].body.students.t = "array"
              /\ \A id \in Range(req'[c].body.students.v) : IsValidObjectId(id))
                 => LET roster == req'[c].body.students.v
                    IN  IF Cardinality(Range(roster) \cap StudentIds) = Len(roster)
                        THEN pc'[c] = "cbSave"
                        ELSE /\ pc'[c] = "done"
                             /\ res'[c].message = "One or more student IDs are invalid"
                             /\ res'[c].status >= 400
                             /\ batches' = batches
                             /\ MarkersUnchanged
       /\ \A i \in 1..Len(batches') :
             Cardinality(Range(batches'[i].students)) = Len(batches'[i].students)]_vars

\* a roster naming an existing student twice has been rejected
C16_Witness ==
    \E c \in Clients :
        /\ Served(c, "createBatch")
        /\ ~FieldMissing(req[c].body)
        /\ req[c].body.students.t = "array"
        /\ Len(req[c].body.students.v) = 2
        /\ Cardinality(Range(req[c].body.students.v)) = 1
        /\ Range(req[c].body.students.v) \subseteq StudentIds
        /\ res[c].message = "One or more student IDs are invalid"
        /\ batches = <<>>

====
